---- MODULE Spec2Model ----
(***************************************************************************)
(* Model of mmdot's SSH configuration synchronisation:                     *)
(*   internal/ssh/config.go      Host, Host.String, Host.Validate          *)
(*   internal/ssh/parser.go      Parser.Parse, MergeHosts, WriteConfig,    *)
(*                               ValidateHosts, DeduplicateHosts, Sort     *)
(*   internal/commands/cmd_ssh.go  sync, loadHosts, mergeConfigs,          *)
(*                               writeConfig, createBackup, writeAtomic    *)
(*                                                                         *)
(* A file is a sequence of lines.  A line is a record [kind, a, b]: kind   *)
(* is the branch of Parser.Parse the trimmed text of the line takes        *)
(* (begin marker, end marker, comment, blank, Host directive, anything     *)
(* else), a and b are the text that follows the keyword.  Two lines are    *)
(* the same text exactly when the records are equal.                       *)
(***************************************************************************)
EXTENDS Integers, Sequences, FiniteSets, TLC

VARIABLES
    cfg,            \* ssh.Config read by setupEnv: PreserveLocal, Backup, Hosts, dry-run flag
    target,         \* content of cfg.ConfigFile on disk (Absent when there is none)
    temp,           \* the temp file of writeAtomic
    backupFile,     \* content of <path>.backup-<timestamp> (Absent when there is none)
    pc,             \* position of the running sync invocation
    allHosts,       \* desired hosts returned by loadHosts
    existingHosts,  \* entries returned by ParseFile
    mergedHosts,    \* running result of the fold in mergeConfigs
    pending,        \* keys of hostsBySource not yet visited by the fold
    arg,            \* arguments of the latest call of the function under check
    ret,            \* what that call returned
    report,         \* added / modified / removed names computed by showDiff
    err,            \* error returned by sync ("" when none)
    run             \* bookkeeping over successive invocations

vars == <<cfg, target, temp, backupFile, pc, allHosts, existingHosts,
          mergedHosts, pending, arg, ret, report, err, run>>

-----------------------------------------------------------------------------
(* Bounds of the model *)

MaxLines == 3       \* lines of a file given to Parse
MaxEntries == 2     \* existing entries given to MergeHosts
MaxHosts == 2       \* desired hosts given to MergeHosts
MaxBlocks == 2      \* blocks of text in the file a sync starts from
MaxList == 3        \* hosts of a list given to ValidateHosts and DeduplicateHosts
MaxWritten == 3     \* entries given to WriteConfig

-----------------------------------------------------------------------------
(* Sequences *)

Range(s) == {s[i] : i \in DOMAIN s}

SeqsUpTo(S, n) == UNION {[1..k -> S] : k \in 0..n}

RECURSIVE Flatten(_)
Flatten(ss) == IF ss = <<>> THEN <<>> ELSE Head(ss) \o Flatten(Tail(ss))

Perms(s) ==
    {[i \in DOMAIN s |-> s[p[i]]] :
        p \in {q \in [DOMAIN s -> DOMAIN s] : \A i, j \in DOMAIN s : i # j => q[i] # q[j]}}

\* a is a subsequence of b (order kept, elements possibly skipped in b)
RECURSIVE IsSubseq(_, _)
IsSubseq(a, b) ==
    IF a = <<>> THEN TRUE
    ELSE IF b = <<>> THEN FALSE
    ELSE IF Head(a) = Head(b) THEN IsSubseq(Tail(a), Tail(b))
    ELSE IsSubseq(a, Tail(b))

-----------------------------------------------------------------------------
(* Lines of an SSH config file *)

Line(k, x, y) == [kind |-> k, a |-> x, b |-> y]

HostLine(n) == Line("host", n, "")              \* "Host <n>"
OptLine(key, val) == Line("opt", key, val)      \* "    <key> <val>"
BlankLine == Line("blank", "", "")              \* ""
CommentLine(t) == Line("comment", t, "")        \* "# <t>"
BeginMarker(n) == Line("begin", n, "")          \* "# === BEGIN MMDOT MANAGED: <n> ==="
EndMarker(n) == Line("end", n, "")              \* "# === END MMDOT MANAGED: <n> ==="

\* the section name Parse takes from a BEGIN marker: the text after the
\* prefix, trimmed, with one trailing "===" removed, trimmed again
TrimSectionName(n) ==
    CASE n = "B ===" -> "B"
      [] n = " A" -> "A"
      [] OTHER -> n

-----------------------------------------------------------------------------
(* Ownership tags: "local" or "managed:<name>" *)

LocalTag == <<"local">>
ManagedTag(n) == <<"managed", n>>
IsManagedTag(t) == t[1] = "managed"             \* strings.HasPrefix(t, "managed:")
TagName(t) == IF IsManagedTag(t) THEN t[2] ELSE t[1]   \* strings.TrimPrefix(t, "managed:")

ParsedHost(n, ls, cs, src) == [Name |-> n, Lines |-> ls, Comments |-> cs, Source |-> src]

-----------------------------------------------------------------------------
(* ssh.Host (config.go:30-46).  ForwardAgent / ForwardX11 are *bool: "nil", *)
(* "yes" or "no".  A forward string is the sequence of its colon-separated *)
(* segments; Custom holds the lines the custom strings make once indented. *)

Host(n, hn) ==
    [Name |-> n, Hostname |-> hn, User |-> "", Port |-> 0, IdentityFile |-> "",
     ProxyJump |-> "", ForwardAgent |-> "nil", ForwardX11 |-> "nil",
     LocalForward |-> <<>>, RemoteForward |-> <<>>, Custom |-> <<>>,
     Source |-> "", Priority |-> 0]

RECURSIVE JoinColon(_)
JoinColon(segs) ==
    IF Len(segs) = 1 THEN segs[1] ELSE segs[1] \o ":" \o JoinColon(Tail(segs))

\* ForwardLines that writes the forward as it is, colon or not
ForwardLinesUnsplit(key, forward) == <<OptLine(key, JoinColon(forward))>>

\* strings.SplitN(forward, ":", 2) and the line written when it has two parts
ForwardLines(key, forward) ==
    IF Len(forward) >= 2
    THEN <<OptLine(key, forward[1] \o " " \o JoinColon(Tail(forward)))>>
    ELSE <<>>

\* strings.Split(h.String(), "\n"): the lines of the serialisation of h
HostString(h) ==
    <<HostLine(h.Name)>>
    \o (IF h.Hostname # "" THEN <<OptLine("Hostname", h.Hostname)>> ELSE <<>>)
    \o (IF h.User # "" THEN <<OptLine("User", h.User)>> ELSE <<>>)
    \o (IF h.Port > 0 THEN <<OptLine("Port", ToString(h.Port))>> ELSE <<>>)
    \o (IF h.IdentityFile # "" THEN <<OptLine("IdentityFile", h.IdentityFile)>> ELSE <<>>)
    \o (IF h.ProxyJump # "" THEN <<OptLine("ProxyJump", h.ProxyJump)>> ELSE <<>>)
    \o (IF h.ForwardAgent # "nil" THEN <<OptLine("ForwardAgent", h.ForwardAgent)>> ELSE <<>>)
    \o (IF h.ForwardX11 # "nil" THEN <<OptLine("ForwardX11", h.ForwardX11)>> ELSE <<>>)
    \o Flatten([i \in DOMAIN h.LocalForward |-> ForwardLines("LocalForward", h.LocalForward[i])])
    \o Flatten([i \in DOMAIN h.RemoteForward |-> ForwardLines("RemoteForward", h.RemoteForward[i])])
    \o h.Custom

MaxPort == 65535

\* HostValidate that takes port 0 for invalid
HostValidatePortPositive(h) ==
    IF h.Name = "" THEN "host name cannot be empty"
    ELSE IF h.Hostname = "" THEN "hostname cannot be empty"
    ELSE IF h.Port <= 0 \/ h.Port > MaxPort THEN "invalid port"
    ELSE ""

\* Host.Validate: "" when valid, else which check failed
HostValidate(h) ==
    IF h.Name = "" THEN "host name cannot be empty"
    ELSE IF h.Hostname = "" THEN "hostname cannot be empty"
    ELSE IF h.Port < 0 \/ h.Port > MaxPort THEN "invalid port"
    ELSE ""

-----------------------------------------------------------------------------
(* Parser.Parse (parser.go:47-131): one step of the scan loop per line *)

ParseState0 ==
    [hosts |-> <<>>, open |-> FALSE, currentHost |-> ParsedHost("", <<>>, <<>>, LocalTag),
     inManagedSection |-> FALSE, managedSectionName |-> "", comments |-> <<>>]

\* ParseLine that does not leave the managed section at an END marker
ParseLineEndIgnored(s, line, preserveLocal) ==
    IF line.kind = "begin"
    THEN [s EXCEPT !.inManagedSection = TRUE,
                   !.managedSectionName = TrimSectionName(line.a)]
    ELSE IF line.kind = "end"
    THEN s
    ELSE IF s.inManagedSection /\ preserveLocal
    THEN s
    ELSE IF line.kind = "comment"
    THEN [s EXCEPT !.comments = Append(@, line)]
    ELSE IF line.kind = "blank"
    THEN IF s.open THEN [s EXCEPT !.currentHost.Lines = Append(@, line)] ELSE s
    ELSE IF line.kind = "host"
    THEN [s EXCEPT !.hosts = IF s.open THEN Append(@, s.currentHost) ELSE @,
                   !.open = TRUE,
                   !.currentHost =
                       ParsedHost(line.a, <<line>>, s.comments,
                                  IF s.inManagedSection
                                  THEN ManagedTag(s.managedSectionName)
                                  ELSE LocalTag),
                   !.comments = <<>>]
    ELSE IF s.open THEN [s EXCEPT !.currentHost.Lines = Append(@, line)] ELSE s

ParseLine(s, line, preserveLocal) ==
    IF line.kind = "begin"
    THEN [s EXCEPT !.inManagedSection = TRUE,
                   !.managedSectionName = TrimSectionName(line.a)]
    ELSE IF line.kind = "end"
    THEN [s EXCEPT !.inManagedSection = FALSE, !.managedSectionName = ""]
    ELSE IF s.inManagedSection /\ preserveLocal
    THEN s
    ELSE IF line.kind = "comment"
    THEN [s EXCEPT !.comments = Append(@, line)]
    ELSE IF line.kind = "blank"
    THEN IF s.open THEN [s EXCEPT !.currentHost.Lines = Append(@, line)] ELSE s
    ELSE IF line.kind = "host"
    THEN [s EXCEPT !.hosts = IF s.open THEN Append(@, s.currentHost) ELSE @,
                   !.open = TRUE,
                   !.currentHost =
                       ParsedHost(line.a, <<line>>, s.comments,
                                  IF s.inManagedSection
                                  THEN ManagedTag(s.managedSectionName)
                                  ELSE LocalTag),
                   !.comments = <<>>]
    ELSE IF s.open THEN [s EXCEPT !.currentHost.Lines = Append(@, line)] ELSE s

RECURSIVE ParseScan(_, _, _)
ParseScan(s, lines, preserveLocal) ==
    IF lines = <<>> THEN s
    ELSE ParseScan(ParseLine(s, Head(lines), preserveLocal), Tail(lines), preserveLocal)

\* Parse without the skip of managed sections (parser.go:75-78)
ParseNoSkip(lines, preserveLocal) ==
    LET s == ParseScan(ParseState0, lines, FALSE)
    IN  IF s.open THEN Append(s.hosts, s.currentHost) ELSE s.hosts

Parse(lines, preserveLocal) ==
    LET s == ParseScan(ParseState0, lines, preserveLocal)
    IN  IF s.open THEN Append(s.hosts, s.currentHost) ELSE s.hosts

Absent == <<Line("absent", "", "")>>

\* Parser.ParseFile: a path that does not exist gives the empty list
ParseFile(file, preserveLocal) ==
    IF file = Absent THEN <<>> ELSE Parse(file, preserveLocal)

-----------------------------------------------------------------------------
(* Parser.MergeHosts (parser.go:134-172) *)

RECURSIVE MergeKeepDropsSameName(_, _, _, _)
\* MergeKeep without the test that the same-named entry is not local
MergeKeepDropsSameName(existing, managedNames, sourceName, preserveLocal) ==
    IF existing = <<>> THEN <<>>
    ELSE LET e == Head(existing)
             rest == MergeKeepDropsSameName(Tail(existing), managedNames, sourceName,
                                            preserveLocal)
         IN  IF e.Source = ManagedTag(sourceName) THEN rest
             ELSE IF e.Name \in managedNames THEN rest
             ELSE IF preserveLocal /\ e.Source = LocalTag THEN <<e>> \o rest
             ELSE rest

RECURSIVE MergeKeepOtherSources(_, _, _, _)
\* MergeKeep keeping every entry that another source manages
MergeKeepOtherSources(existing, managedNames, sourceName, preserveLocal) ==
    IF existing = <<>> THEN <<>>
    ELSE LET e == Head(existing)
             rest == MergeKeepOtherSources(Tail(existing), managedNames, sourceName,
                                           preserveLocal)
         IN  IF e.Source = ManagedTag(sourceName) THEN rest
             ELSE IF preserveLocal /\ e.Source = LocalTag THEN <<e>> \o rest
             ELSE IF IsManagedTag(e.Source) THEN <<e>> \o rest
             ELSE rest

RECURSIVE MergeKeep(_, _, _, _)
\* the loop over existing (lines 144-159)
MergeKeep(existing, managedNames, sourceName, preserveLocal) ==
    IF existing = <<>> THEN <<>>
    ELSE LET e == Head(existing)
             rest == MergeKeep(Tail(existing), managedNames, sourceName, preserveLocal)
         IN  IF e.Source = ManagedTag(sourceName) THEN rest
             ELSE IF e.Name \in managedNames /\ e.Source # LocalTag THEN rest
             ELSE IF preserveLocal /\ e.Source = LocalTag THEN <<e>> \o rest
             ELSE rest

\* MergeAdd tagging each new entry with the host's own Source field
MergeAddTagsByHost(managed, sourceName) ==
    [i \in DOMAIN managed |->
        ParsedHost(managed[i].Name, HostString(managed[i]), <<>>,
                   ManagedTag(managed[i].Source))]

\* the loop over managed (lines 162-169)
MergeAdd(managed, sourceName) ==
    [i \in DOMAIN managed |->
        ParsedHost(managed[i].Name, HostString(managed[i]), <<>>, ManagedTag(sourceName))]

MergeHosts(existing, managed, sourceName, preserveLocal) ==
    MergeKeep(existing, {managed[i].Name : i \in DOMAIN managed}, sourceName, preserveLocal)
    \o MergeAdd(managed, sourceName)

-----------------------------------------------------------------------------
(* Parser.WriteConfig (parser.go:175-298): the lines written to w *)

\* comments, then lines, of each host, one blank line between hosts
RECURSIVE WriteHosts(_, _)
WriteHosts(hosts, withComments) ==
    IF hosts = <<>> THEN <<>>
    ELSE (IF withComments THEN Head(hosts).Comments ELSE <<>>)
         \o Head(hosts).Lines
         \o (IF Len(hosts) > 1 THEN <<BlankLine>> ELSE <<>>)
         \o WriteHosts(Tail(hosts), withComments)

RECURSIVE WriteHostsSpaced(_)
\* writeLinearConfig with the spacing test off by one: a blank line after
\* every host, the last one too
WriteHostsSpaced(hosts) ==
    IF hosts = <<>> THEN <<>>
    ELSE Head(hosts).Comments \o Head(hosts).Lines \o <<BlankLine>>
         \o WriteHostsSpaced(Tail(hosts))

writeLinearConfig(hosts) == WriteHosts(hosts, TRUE)

RECURSIVE BySource(_, _)
\* grouped[source]
BySource(hosts, source) ==
    IF hosts = <<>> THEN <<>>
    ELSE (IF Head(hosts).Source = source THEN <<Head(hosts)>> ELSE <<>>)
         \o BySource(Tail(hosts), source)

RECURSIVE SourcesInOrder(_, _)
\* sources: the distinct tags in order of first appearance
SourcesInOrder(hosts, seen) ==
    IF hosts = <<>> THEN <<>>
    ELSE IF Head(hosts).Source \in seen THEN SourcesInOrder(Tail(hosts), seen)
    ELSE <<Head(hosts).Source>> \o SourcesInOrder(Tail(hosts), seen \cup {Head(hosts).Source})

\* WriteSection that leaves the END marker out
WriteSectionUnclosed(hosts, source) ==
    <<BeginMarker(TagName(source))>>
    \o WriteHosts(BySource(hosts, source), FALSE)
    \o <<BlankLine>>

WriteSection(hosts, source) ==
    <<BeginMarker(TagName(source))>>
    \o WriteHosts(BySource(hosts, source), FALSE)
    \o <<EndMarker(TagName(source)), BlankLine>>

\* writeGroupedConfig that writes the managed entries without their markers
writeGroupedConfigUnmarked(hosts) ==
    LET localHosts == BySource(hosts, LocalTag)
        sources == SourcesInOrder(hosts, {})
    IN  (IF localHosts # <<>> THEN WriteHosts(localHosts, TRUE) \o <<BlankLine>> ELSE <<>>)
        \o Flatten([i \in DOMAIN sources |->
                      IF sources[i] = LocalTag THEN <<>>
                      ELSE WriteHosts(BySource(hosts, sources[i]), FALSE) \o <<BlankLine>>])

writeGroupedConfig(hosts) ==
    LET localHosts == BySource(hosts, LocalTag)
        sources == SourcesInOrder(hosts, {})
    IN  (IF localHosts # <<>> THEN WriteHosts(localHosts, TRUE) \o <<BlankLine>> ELSE <<>>)
        \o Flatten([i \in DOMAIN sources |->
                      IF sources[i] = LocalTag THEN <<>> ELSE WriteSection(hosts, sources[i])])

WriteConfig(hosts, groupBySource) ==
    IF groupBySource THEN writeGroupedConfig(hosts) ELSE writeLinearConfig(hosts)

-----------------------------------------------------------------------------
(* ValidateHosts, DeduplicateHosts, SortHostsByPriority (parser.go:301-353) *)

RECURSIVE ValidateScanDuplicatesOnly(_, _)
\* ValidateScan without the call of host.Validate
ValidateScanDuplicatesOnly(hosts, seen) ==
    IF hosts = <<>> THEN [kind |-> "", name |-> "", first |-> "", second |-> ""]
    ELSE LET h == Head(hosts)
         IN  IF h.Name \in DOMAIN seen
             THEN [kind |-> "duplicate host name", name |-> h.Name,
                   first |-> seen[h.Name], second |-> h.Source]
             ELSE ValidateScanDuplicatesOnly(Tail(hosts),
                               [n \in DOMAIN seen \cup {h.Name} |->
                                   IF n = h.Name THEN h.Source ELSE seen[n]])

RECURSIVE ValidateScan(_, _)
\* seen maps the names met so far to their source
ValidateScan(hosts, seen) ==
    IF hosts = <<>> THEN [kind |-> "", name |-> "", first |-> "", second |-> ""]
    ELSE LET h == Head(hosts)
         IN  IF HostValidate(h) # ""
             THEN [kind |-> HostValidate(h), name |-> h.Name, first |-> "", second |-> ""]
             ELSE IF h.Name \in DOMAIN seen
             THEN [kind |-> "duplicate host name", name |-> h.Name,
                   first |-> seen[h.Name], second |-> h.Source]
             ELSE ValidateScan(Tail(hosts),
                               [n \in DOMAIN seen \cup {h.Name} |->
                                   IF n = h.Name THEN h.Source ELSE seen[n]])

ValidateHosts(hosts) == ValidateScan(hosts, <<>>)

RECURSIVE DedupScanKeepsLowest(_, _)
\* DedupScan with the comparison of priorities turned round
DedupScanKeepsLowest(hosts, hostMap) ==
    IF hosts = <<>> THEN hostMap
    ELSE LET h == Head(hosts)
         IN  DedupScanKeepsLowest(Tail(hosts),
                 IF h.Name \in DOMAIN hostMap
                 THEN IF h.Priority < hostMap[h.Name].Priority
                      THEN [hostMap EXCEPT ![h.Name] = h]
                      ELSE hostMap
                 ELSE [n \in DOMAIN hostMap \cup {h.Name} |->
                          IF n = h.Name THEN h ELSE hostMap[n]])

RECURSIVE DedupScan(_, _)
\* hostMap after the loop of lines 324-333
DedupScan(hosts, hostMap) ==
    IF hosts = <<>> THEN hostMap
    ELSE LET h == Head(hosts)
         IN  DedupScan(Tail(hosts),
                 IF h.Name \in DOMAIN hostMap
                 THEN IF h.Priority > hostMap[h.Name].Priority
                      THEN [hostMap EXCEPT ![h.Name] = h]
                      ELSE hostMap
                 ELSE [n \in DOMAIN hostMap \cup {h.Name} |->
                          IF n = h.Name THEN h ELSE hostMap[n]])

\* the slices DeduplicateHosts can return: the values of hostMap in any
\* order (the result is built by ranging over a map)
DeduplicateHosts(hosts) ==
    LET hostMap == DedupScan(hosts, <<>>)
    IN  {r \in [1..Cardinality(DOMAIN hostMap) -> Range(hostMap)] :
            \A i, j \in DOMAIN r : i # j => r[i] # r[j]}

\* the order of source names as strings
SourceRank(n) == CASE n = "A" -> 1 [] n = "B" -> 2 [] OTHER -> 3

\* SortLess with equal priorities ordered by source name, last name first
SortLessTiesDescending(x, y) ==
    IF x.Priority = y.Priority THEN SourceRank(x.Source) > SourceRank(y.Source)
    ELSE x.Priority > y.Priority

\* less(i, j) of SortHostsByPriority
SortLess(x, y) ==
    IF x.Priority = y.Priority THEN SourceRank(x.Source) < SourceRank(y.Source)
    ELSE x.Priority > y.Priority

\* the orders sort.Slice can leave the slice in (sort.Slice is not stable)
SortHostsByPriority(hosts) ==
    {r \in Perms(hosts) : \A i, j \in DOMAIN r : i < j => ~SortLess(r[j], r[i])}

-----------------------------------------------------------------------------
(* SSHCmd.showDiff (cmd_ssh.go:97-156) *)

\* existingMap / mergedMap: the last entry of each name
LastOf(hosts, name) ==
    hosts[CHOOSE i \in DOMAIN hosts :
              hosts[i].Name = name /\ \A j \in DOMAIN hosts : hosts[j].Name = name => j <= i]

NamesOf(hosts) == {hosts[i].Name : i \in DOMAIN hosts}

\* showDiff that reports every name missing from the merged entries as removed
showDiffRemovesLocal(existing, merged) ==
    [added |-> NamesOf(merged) \ NamesOf(existing),
     modified |-> {n \in NamesOf(merged) \cap NamesOf(existing) :
                      LastOf(existing, n).Lines # LastOf(merged, n).Lines},
     removed |-> NamesOf(existing) \ NamesOf(merged)]

showDiff(existing, merged) ==
    [added |-> NamesOf(merged) \ NamesOf(existing),
     modified |-> {n \in NamesOf(merged) \cap NamesOf(existing) :
                      LastOf(existing, n).Lines # LastOf(merged, n).Lines},
     removed |-> {n \in NamesOf(existing) \ NamesOf(merged) :
                      IsManagedTag(LastOf(existing, n).Source)}]

-----------------------------------------------------------------------------
(* The inputs of a sync: the configuration and the file on disk *)

HostSource(n, prio, hosts, broken) ==
    [Name |-> n, Priority |-> prio, Hosts |-> hosts, Broken |-> broken]

hx == Host("x", "x.test")
hx2 == Host("x", "x2.test")
hy == [Host("y", "y.test") EXCEPT !.Port = 22]
ha == Host("a", "a.test")
hbad == Host("z", "")

\* the source lists of mmdot.toml the model runs sync with
SourceLists ==
    { <<>>,
      <<HostSource("A", 1, <<hx>>, FALSE)>>,
      <<HostSource("A", 1, <<hx, ha>>, FALSE)>>,
      <<HostSource("A", 1, <<hx>>, FALSE), HostSource("B", 2, <<hy>>, FALSE)>>,
      <<HostSource("A", 1, <<hx>>, FALSE), HostSource("B", 1, <<hx2>>, FALSE)>>,
      <<HostSource("B", 1, <<hx2>>, FALSE), HostSource("A", 2, <<hx, hy>>, FALSE)>>,
      <<HostSource("A", 1, <<hx, hbad>>, FALSE)>>,
      <<HostSource("A", 1, <<hx>>, FALSE), HostSource("B", 2, <<hy>>, TRUE)>> }

\* the configuration and the command line: "mmdot ssh sync [--dry-run]" or
\* "mmdot ssh diff" (diff has no dry-run flag)
Configs ==
    {c \in [PreserveLocal : BOOLEAN, Backup : BOOLEAN, DryRun : BOOLEAN,
            Command : {"sync", "diff"}, Hosts : SourceLists] :
        c.Command = "diff" => ~c.DryRun}

\* pieces of text a config file is made of
Blocks ==
    { <<HostLine("a"), OptLine("Hostname", "a.local")>>,
      <<CommentLine("note"), HostLine("b"), OptLine("Hostname", "b.local"), BlankLine>>,
      <<BeginMarker("A"), HostLine("x"), OptLine("Hostname", "x.test"), EndMarker("A"), BlankLine>>,
      <<BeginMarker("B"), HostLine("y"), OptLine("Hostname", "y.old"), EndMarker("B"), BlankLine>> }

StartFiles == {Absent} \cup {Flatten(bs) : bs \in SeqsUpTo(Blocks, MaxBlocks)}

NoTemp == [exists |-> FALSE, content |-> <<>>, synced |-> FALSE, open |-> FALSE, mode |-> ""]
NoCall ==
    [fn |-> "", file |-> <<>>, existing |-> <<>>, managed |-> <<>>, sourceName |-> "",
     preserveLocal |-> FALSE, grouped |-> FALSE, again |-> FALSE]
NoReturn == [fn |-> "", hosts |-> <<>>, out |-> <<>>, back |-> <<>>]
NoReport == [added |-> {}, modified |-> {}, removed |-> {}]

-----------------------------------------------------------------------------
(* SSHCmd.sync and what it calls (cmd_ssh.go:51-95, 160-320) *)

Init ==
    /\ cfg \in Configs
    /\ target \in StartFiles
    /\ temp = NoTemp
    /\ backupFile = Absent
    /\ pc = "load"
    /\ allHosts = <<>>
    /\ existingHosts = <<>>
    /\ mergedHosts = <<>>
    /\ pending = {}
    /\ arg = NoCall
    /\ ret = NoReturn
    /\ report = NoReport
    /\ err = ""
    /\ run = [mode |-> "first", file0 |-> target, before |-> target, prevOut |-> Absent,
              backup0 |-> Absent]

Fail(e) == pc' = "done" /\ err' = e

\* sync, lines 57-60: no sources configured
NoSources ==
    /\ pc = "load" /\ cfg.Hosts = <<>>
    /\ pc' = "done"
    /\ UNCHANGED <<cfg, target, temp, backupFile, allHosts, existingHosts, mergedHosts,
                   pending, arg, ret, report, err, run>>

\* loadHosts, lines 163-176: the hosts of every source, stamped
Stamp(source) ==
    [i \in DOMAIN source.Hosts |->
        [source.Hosts[i] EXCEPT !.Priority = source.Priority, !.Source = source.Name]]

Loaded(sources) == Flatten([i \in DOMAIN sources |-> Stamp(sources[i])])

\* LoadHosts that goes on with the sources it could load and does not validate
LoadHostsLenient ==
    /\ pc = "load" /\ cfg.Hosts # <<>>
    /\ \E sorted \in SortHostsByPriority(Loaded(SelectSeq(cfg.Hosts, LAMBDA s : ~s.Broken))) :
       \E deduplicated \in DeduplicateHosts(sorted) :
          allHosts' = deduplicated /\ pc' = "parse" /\ UNCHANGED err
    /\ UNCHANGED <<cfg, target, temp, backupFile, existingHosts, mergedHosts,
                   pending, arg, ret, report, run>>

\* loadHosts: load, sort, deduplicate, validate
LoadHosts ==
    /\ pc = "load" /\ cfg.Hosts # <<>>
    /\ IF \E i \in DOMAIN cfg.Hosts : cfg.Hosts[i].Broken
       THEN Fail("failed to load hosts") /\ UNCHANGED allHosts
       ELSE \E sorted \in SortHostsByPriority(Loaded(cfg.Hosts)) :
            \E deduplicated \in DeduplicateHosts(sorted) :
               IF ValidateHosts(deduplicated).kind # ""
               THEN Fail("host validation failed") /\ UNCHANGED allHosts
               ELSE allHosts' = deduplicated /\ pc' = "parse" /\ UNCHANGED err
    /\ UNCHANGED <<cfg, target, temp, backupFile, existingHosts, mergedHosts,
                   pending, arg, ret, report, run>>

\* ParseExisting with a parser that reads managed sections whatever
\* preserve-local is
ParseExistingAll ==
    /\ pc = "parse"
    /\ existingHosts' = ParseFile(target, FALSE)
    /\ mergedHosts' = existingHosts'
    /\ pending' = {allHosts[i].Source : i \in DOMAIN allHosts}
    /\ pc' = "merge"
    /\ UNCHANGED <<cfg, target, temp, backupFile, allHosts, arg, ret, report, err, run>>

\* sync, lines 70-75, and the start of mergeConfigs (lines 227-233)
ParseExisting ==
    /\ pc = "parse"
    /\ existingHosts' = ParseFile(target, cfg.PreserveLocal)
    /\ mergedHosts' = existingHosts'
    /\ pending' = {allHosts[i].Source : i \in DOMAIN allHosts}
    /\ pc' = "merge"
    /\ UNCHANGED <<cfg, target, temp, backupFile, allHosts, arg, ret, report, err, run>>

\* ParseError without the os.IsNotExist test: a missing file is an error too
ParseErrorOnMissing ==
    /\ pc = "parse"
    /\ Fail("failed to parse existing SSH config")
    /\ UNCHANGED <<cfg, target, temp, backupFile, allHosts, existingHosts, mergedHosts,
                   pending, arg, ret, report, run>>

\* os.Open fails on a file that exists
ParseError ==
    /\ pc = "parse" /\ target # Absent
    /\ Fail("failed to parse existing SSH config")
    /\ UNCHANGED <<cfg, target, temp, backupFile, allHosts, existingHosts, mergedHosts,
                   pending, arg, ret, report, run>>

RECURSIVE HostsOfSource(_, _)
\* hostsBySource[sourceName] (lines 227-230)
HostsOfSource(hosts, sourceName) ==
    IF hosts = <<>> THEN <<>>
    ELSE (IF Head(hosts).Source = sourceName THEN <<Head(hosts)>> ELSE <<>>)
         \o HostsOfSource(Tail(hosts), sourceName)

\* mergeConfigs, lines 234-236: one iteration of the range over the map
MergeStep ==
    /\ pc = "merge"
    /\ \E sourceName \in pending :
          LET hosts == HostsOfSource(allHosts, sourceName)
              result == MergeHosts(mergedHosts, hosts, sourceName, cfg.PreserveLocal)
          IN  /\ arg' = [NoCall EXCEPT !.fn = "MergeHosts", !.existing = mergedHosts,
                                        !.managed = hosts, !.sourceName = sourceName,
                                        !.preserveLocal = cfg.PreserveLocal]
              /\ ret' = [NoReturn EXCEPT !.fn = "MergeHosts", !.hosts = result]
              /\ mergedHosts' = result
              /\ pending' = pending \ {sourceName}
    /\ UNCHANGED <<cfg, target, temp, backupFile, pc, allHosts, existingHosts, report, err, run>>

\* sync, lines 83-86
DryRunDiff ==
    /\ pc = "merge" /\ pending = {} /\ cfg.Command = "sync" /\ cfg.DryRun
    /\ report' = showDiff(existingHosts, mergedHosts)
    /\ pc' = "done"
    /\ UNCHANGED <<cfg, target, temp, backupFile, allHosts, existingHosts, mergedHosts,
                   pending, arg, ret, err, run>>

\* SSHCmd.diff: after the same load, parse and merge it ends with showDiff
DiffCommand ==
    /\ pc = "merge" /\ pending = {} /\ cfg.Command = "diff"
    /\ report' = showDiff(existingHosts, mergedHosts)
    /\ pc' = "done"
    /\ UNCHANGED <<cfg, target, temp, backupFile, allHosts, existingHosts, mergedHosts,
                   pending, arg, ret, err, run>>

\* Backup without the return of the dry-run branch before it
BackupInDryRun ==
    /\ pc = "merge" /\ pending = {}
    /\ \/ /\ cfg.Backup /\ target # Absent
          /\ backupFile' = target
          /\ pc' = "mkdir" /\ UNCHANGED err
       \/ /\ ~cfg.Backup \/ target = Absent
          /\ pc' = "mkdir" /\ UNCHANGED <<backupFile, err>>
    /\ UNCHANGED <<cfg, target, temp, allHosts, existingHosts, mergedHosts,
                   pending, arg, ret, report, run>>

\* Backup going on to writeAtomic after createBackup failed
BackupBestEffort ==
    /\ pc = "merge" /\ pending = {} /\ cfg.Command = "sync" /\ ~cfg.DryRun
    /\ \/ /\ cfg.Backup /\ target # Absent
          /\ backupFile' = target
          /\ pc' = "mkdir" /\ UNCHANGED err
       \/ /\ cfg.Backup /\ target # Absent
          /\ backupFile' \in {backupFile, <<>>}
          /\ pc' = "mkdir" /\ UNCHANGED err
       \/ /\ ~cfg.Backup \/ target = Absent
          /\ pc' = "mkdir" /\ UNCHANGED <<backupFile, err>>
    /\ UNCHANGED <<cfg, target, temp, allHosts, existingHosts, mergedHosts,
                   pending, arg, ret, report, run>>

\* writeConfig, lines 243-247, with createBackup
Backup ==
    /\ pc = "merge" /\ pending = {} /\ cfg.Command = "sync" /\ ~cfg.DryRun
    /\ \/ /\ cfg.Backup /\ target # Absent
          /\ backupFile' = target
          /\ pc' = "mkdir" /\ UNCHANGED err
       \/ /\ cfg.Backup /\ target # Absent
          /\ backupFile' \in {backupFile, <<>>}
          /\ Fail("failed to create backup")
       \/ /\ ~cfg.Backup \/ target = Absent
          /\ pc' = "mkdir" /\ UNCHANGED <<backupFile, err>>
    /\ UNCHANGED <<cfg, target, temp, allHosts, existingHosts, mergedHosts,
                   pending, arg, ret, report, run>>

-----------------------------------------------------------------------------
(* SSHCmd.writeAtomic (cmd_ssh.go:277-320), one action per system call *)

WaFrame == UNCHANGED <<cfg, backupFile, allHosts, existingHosts, mergedHosts,
                       pending, arg, ret, report, run>>

\* lines 279-282: os.MkdirAll
WaMkdir ==
    /\ pc = "mkdir"
    /\ \/ pc' = "create" /\ UNCHANGED err
       \/ Fail("failed to create SSH config directory")
    /\ UNCHANGED <<target, temp>>
    /\ WaFrame

\* lines 285-292: os.CreateTemp, and the deferred cleanup is registered
WaCreateTemp ==
    /\ pc = "create"
    /\ \/ /\ temp' = [exists |-> TRUE, content |-> <<>>, synced |-> FALSE,
                      open |-> TRUE, mode |-> "0600"]
          /\ pc' = "write" /\ UNCHANGED err
       \/ Fail("failed to create temp file") /\ UNCHANGED temp
    /\ UNCHANGED target
    /\ WaFrame

\* after an error return the deferred function still has to run
FailDeferred(e) == pc' = "cleanup" /\ err' = e

\* WaWriteConfig with the error of WriteConfig not checked
WaWriteConfigUnchecked ==
    /\ pc = "write"
    /\ LET out == WriteConfig(mergedHosts, TRUE)
       IN  \E k \in 0..Len(out) : temp' = [temp EXCEPT !.content = SubSeq(out, 1, k)]
    /\ pc' = "sync"
    /\ UNCHANGED <<target, err>>
    /\ WaFrame

\* lines 295-297: parser.WriteConfig(tempFile, hosts, true); a failing write
\* leaves the lines written before it in the temp file
WaWriteConfig ==
    /\ pc = "write"
    /\ LET out == WriteConfig(mergedHosts, TRUE)
       IN  \/ /\ temp' = [temp EXCEPT !.content = out]
              /\ pc' = "sync" /\ UNCHANGED err
           \/ \E k \in 0..(Len(out) - 1) :
                 /\ temp' = [temp EXCEPT !.content = SubSeq(out, 1, k)]
                 /\ FailDeferred("failed to write config")
    /\ UNCHANGED target
    /\ WaFrame

\* lines 300-302: tempFile.Sync
WaSync ==
    /\ pc = "sync"
    /\ \/ temp' = [temp EXCEPT !.synced = TRUE] /\ pc' = "close" /\ UNCHANGED err
       \/ FailDeferred("failed to sync temp file") /\ UNCHANGED temp
    /\ UNCHANGED target
    /\ WaFrame

\* lines 305-307: tempFile.Close
WaClose ==
    /\ pc = "close"
    /\ temp' = [temp EXCEPT !.open = FALSE]
    /\ \/ pc' = "chmod" /\ UNCHANGED err
       \/ FailDeferred("failed to close temp file")
    /\ UNCHANGED target
    /\ WaFrame

\* lines 310-312: os.Chmod(tempFile.Name(), 0o600)
WaChmod ==
    /\ pc = "chmod"
    /\ \/ temp' = [temp EXCEPT !.mode = "0600"] /\ pc' = "rename" /\ UNCHANGED err
       \/ FailDeferred("failed to set file permissions") /\ UNCHANGED temp
    /\ UNCHANGED target
    /\ WaFrame

\* lines 315-317: os.Rename(tempFile.Name(), configPath)
WaRename ==
    /\ pc = "rename"
    /\ \/ /\ target' = temp.content
          /\ temp' = [temp EXCEPT !.exists = FALSE]
          /\ pc' = "cleanup" /\ UNCHANGED err
       \/ FailDeferred("failed to rename temp file") /\ UNCHANGED <<target, temp>>
    /\ WaFrame

\* lines 289-292: the deferred Close and Remove, run on every return
WaDeferred ==
    /\ pc = "cleanup"
    /\ temp' = [temp EXCEPT !.exists = FALSE, !.open = FALSE]
    /\ pc' = "done"
    /\ UNCHANGED <<target, err>>
    /\ WaFrame

-----------------------------------------------------------------------------
(* The command is run again once a sync has written the file *)

Finished ==
    pc = "done" /\ err = "" /\ cfg.Command = "sync" /\ ~cfg.DryRun /\ cfg.Hosts # <<>>

Restart ==
    /\ pc' = "load"
    /\ temp' = NoTemp
    /\ allHosts' = <<>> /\ existingHosts' = <<>> /\ mergedHosts' = <<>>
    /\ pending' = {} /\ arg' = NoCall /\ ret' = NoReturn /\ report' = NoReport
    /\ UNCHANGED <<cfg, err>>

\* sync is run a second time on the file the first run wrote
SyncAgain ==
    /\ Finished /\ run.mode = "first"
    /\ run' = [run EXCEPT !.mode = "again", !.prevOut = target, !.before = target,
                          !.backup0 = backupFile]
    /\ UNCHANGED <<target, backupFile>>
    /\ Restart

\* the file is put back as it was and the same sync is run on it once more
SyncSame ==
    /\ Finished /\ run.mode = "first"
    /\ run' = [run EXCEPT !.mode = "same", !.prevOut = target, !.before = run.file0,
                          !.backup0 = Absent]
    /\ target' = run.file0
    /\ backupFile' = Absent
    /\ Restart

Next ==
    \/ NoSources \/ LoadHosts \/ ParseExisting \/ ParseError \/ MergeStep
    \/ DryRunDiff \/ DiffCommand \/ Backup
    \/ WaMkdir \/ WaCreateTemp \/ WaWriteConfig \/ WaSync \/ WaClose \/ WaChmod
    \/ WaRename \/ WaDeferred
    \/ SyncAgain \/ SyncSame

Spec == Init /\ [][Next]_vars

-----------------------------------------------------------------------------
(* MergeHosts called on its own, on every input within the bounds *)

SourceNames == {"A", "B"}

\* entries as Parse and MergeHosts build them: the Host line of the name first
Entry(n, src) ==
    ParsedHost(n, <<HostLine(n), OptLine("Hostname", n \o ".old")>>,
               IF src = LocalTag THEN <<CommentLine("note")>> ELSE <<>>, src)

Entries ==
    {Entry(n, src) : n \in {"a", "x"},
                     src \in {LocalTag} \cup {ManagedTag(sn) : sn \in SourceNames}}

DesiredHosts == {hx, hy, ha}

Idle ==
    /\ cfg = [PreserveLocal |-> FALSE, Backup |-> FALSE, DryRun |-> FALSE,
              Command |-> "sync", Hosts |-> <<>>]
    /\ target = Absent
    /\ temp = NoTemp
    /\ backupFile = Absent
    /\ allHosts = <<>>
    /\ existingHosts = <<>>
    /\ mergedHosts = <<>>
    /\ pending = {}
    /\ report = NoReport
    /\ err = ""
    /\ run = [mode |-> "first", file0 |-> Absent, before |-> Absent, prevOut |-> Absent,
              backup0 |-> Absent]

IdleFrame == UNCHANGED <<cfg, target, temp, backupFile, allHosts, existingHosts,
                         mergedHosts, pending, report, err, run>>

InitMerge ==
    /\ Idle
    /\ pc = "call"
    /\ \E existing \in SeqsUpTo(Entries, MaxEntries),
          managed \in SeqsUpTo(DesiredHosts, MaxHosts),
          preserveLocal \in BOOLEAN :
          arg = [NoCall EXCEPT !.fn = "MergeHosts", !.existing = existing,
                               !.managed = managed, !.preserveLocal = preserveLocal]
    /\ ret = NoReturn

CallMergeHosts ==
    /\ pc = "call" /\ arg.fn = "MergeHosts"
    /\ \E sourceName \in SourceNames :
          /\ arg' = [arg EXCEPT !.sourceName = sourceName]
          /\ ret' = [NoReturn EXCEPT !.fn = "MergeHosts",
                                     !.hosts = MergeHosts(arg.existing, arg.managed,
                                                          sourceName, arg.preserveLocal)]
    /\ pc' = "returned"
    /\ IdleFrame

NextMerge == CallMergeHosts

SpecMerge == InitMerge /\ [][NextMerge]_vars

-----------------------------------------------------------------------------
(* Parse, MergeHosts and WriteConfig in sequence, then Parse of what was   *)
(* written, on every file within the bounds                                *)

FileLines ==
    { HostLine("a"), HostLine("x"), OptLine("Hostname", "h.test"), BlankLine,
      CommentLine("note"), BeginMarker("A"), BeginMarker("B"), EndMarker("A") }

InitRoundTrip ==
    /\ Idle
    /\ pc = "call"
    /\ \E file \in SeqsUpTo(FileLines, MaxLines), preserveLocal \in BOOLEAN :
          arg = [NoCall EXCEPT !.fn = "Parse", !.file = file, !.preserveLocal = preserveLocal]
    /\ ret = NoReturn

RtParse ==
    /\ pc = "call" /\ arg.fn = "Parse"
    /\ ret' = [NoReturn EXCEPT !.fn = "Parse", !.hosts = Parse(arg.file, arg.preserveLocal)]
    /\ pc' = "parsed"
    /\ UNCHANGED arg
    /\ IdleFrame

RtMerge ==
    /\ pc = "parsed"
    /\ \E managed \in {<<hx>>, <<hx, hy>>}, sourceName \in SourceNames :
          /\ arg' = [arg EXCEPT !.fn = "MergeHosts", !.existing = ret.hosts,
                                !.managed = managed, !.sourceName = sourceName]
          /\ ret' = [ret EXCEPT !.fn = "MergeHosts",
                                !.hosts = MergeHosts(ret.hosts, managed, sourceName,
                                                     arg.preserveLocal)]
    /\ pc' = "merged"
    /\ IdleFrame

RtWrite ==
    /\ pc \in {"parsed", "merged"}
    /\ \E groupBySource \in BOOLEAN :
          /\ arg' = [arg EXCEPT !.fn = "WriteConfig", !.grouped = groupBySource]
          /\ ret' = [ret EXCEPT !.fn = "WriteConfig",
                                !.out = WriteConfig(ret.hosts, groupBySource)]
    /\ pc' = "written"
    /\ IdleFrame

RtReparse ==
    /\ pc = "written"
    /\ \E preserveLocal \in BOOLEAN :
          /\ arg' = [arg EXCEPT !.fn = "Reparse", !.again = preserveLocal]
          /\ ret' = [ret EXCEPT !.fn = "Reparse", !.back = Parse(ret.out, preserveLocal)]
    /\ pc' = "reparsed"
    /\ IdleFrame

NextRoundTrip == RtParse \/ RtMerge \/ RtWrite \/ RtReparse

SpecRoundTrip == InitRoundTrip /\ [][NextRoundTrip]_vars

-----------------------------------------------------------------------------
(* Claims about MergeHosts *)

MergeReturned == ret.fn = "MergeHosts"

ManagedNames == {arg.managed[i].Name : i \in DOMAIN arg.managed}

\* the entries of the result that come from existing: all but the appended batch
Retained == SubSeq(ret.hosts, 1, Len(ret.hosts) - Len(arg.managed))

\* C1: every existing entry tagged managed:B, B other than the merged
\* source, whose name no desired host has, is in the result unchanged
C1_OtherSourcesRetained ==
    MergeReturned =>
        \A i \in DOMAIN arg.existing :
            LET e == arg.existing[i]
            IN  (/\ IsManagedTag(e.Source)
                 /\ e.Source # ManagedTag(arg.sourceName)
                 /\ e.Name \notin ManagedNames)
                => e \in Range(ret.hosts)

\* C2: after the fold over a desired batch of two or more sources, every
\* desired host is in the merged sequence exactly once, tagged with its own source
C2_FoldLosesNothing ==
    (/\ pc = "merge" /\ pending = {}
     /\ Cardinality({allHosts[i].Source : i \in DOMAIN allHosts}) >= 2)
    => \A i \in DOMAIN allHosts :
          Cardinality({j \in DOMAIN mergedHosts :
                          /\ mergedHosts[j].Name = allHosts[i].Name
                          /\ mergedHosts[j].Source = ManagedTag(allHosts[i].Source)}) = 1

\* C3 as stated: the local entries of existing are in the result, unchanged
\* and in their order, whatever preserve-local is
C3_LocalKeptAlways ==
    MergeReturned => IsSubseq(BySource(arg.existing, LocalTag), ret.hosts)

\* C3 amended: with preserve-local enabled the local entries of existing are
\* in the result, unchanged and in their original relative order
C3_LocalKeptWhenPreserving ==
    (MergeReturned /\ arg.preserveLocal)
    => /\ IsSubseq(BySource(arg.existing, LocalTag), ret.hosts)
       /\ BySource(ret.hosts, LocalTag) = BySource(arg.existing, LocalTag)

C3_Witness ==
    /\ MergeReturned /\ arg.preserveLocal
    /\ Len(BySource(arg.existing, LocalTag)) = 2
    /\ arg.existing[1].Name \in ManagedNames
    /\ arg.existing[1] # arg.existing[2]
    /\ Len(ret.hosts) = 3

\* C4: the result holds no existing entry tagged managed:S; it ends with one
\* entry per desired host, in the supplied order, tagged managed:S, whose
\* lines are the host's serialisation; the retained entries come first, in
\* their original relative order
C4_SectionReplaced ==
    MergeReturned =>
        LET n == Len(ret.hosts)
            m == Len(arg.managed)
        IN  /\ n >= m
            /\ \A i \in 1..m :
                  /\ ret.hosts[n - m + i].Name = arg.managed[i].Name
                  /\ ret.hosts[n - m + i].Source = ManagedTag(arg.sourceName)
                  /\ ret.hosts[n - m + i].Lines = HostString(arg.managed[i])
                  /\ Head(ret.hosts[n - m + i].Lines) = HostLine(arg.managed[i].Name)
            /\ \A i \in 1..(n - m) : Retained[i].Source # ManagedTag(arg.sourceName)
            /\ IsSubseq(Retained, arg.existing)

C4_Witness ==
    /\ MergeReturned
    /\ Len(arg.managed) = 2 /\ arg.managed[1] # arg.managed[2]
    /\ \E i \in DOMAIN arg.existing : arg.existing[i].Source = ManagedTag(arg.sourceName)
    /\ Len(Retained) = 1
    /\ Len(arg.existing) = 2

\* C5: no two entries of the sequence handed to the writer have the same name
C5_NamesUnique ==
    pc = "write" =>
        \A i, j \in DOMAIN mergedHosts :
            i # j => mergedHosts[i].Name # mergedHosts[j].Name

-----------------------------------------------------------------------------
(* Claims about a whole sync *)

\* C6: a second sync on the file the first one wrote, with the same
\* sources, leaves the file as the first one wrote it
C6_Idempotent ==
    (pc = "done" /\ err = "" /\ run.mode = "again") => target = run.prevOut

\* C7: two syncs started from the same file with the same sources write the
\* same file
C7_Deterministic ==
    (pc = "done" /\ err = "" /\ run.mode = "same") => target = run.prevOut

RECURSIVE OutsideSections(_, _)
\* the lines of a file that lie outside managed sections, markers excluded
OutsideSections(lines, inSection) ==
    IF lines = <<>> THEN <<>>
    ELSE IF Head(lines).kind = "begin" THEN OutsideSections(Tail(lines), TRUE)
    ELSE IF Head(lines).kind = "end" THEN OutsideSections(Tail(lines), FALSE)
    ELSE (IF inSection THEN <<>> ELSE <<Head(lines)>>)
         \o OutsideSections(Tail(lines), inSection)

\* C8: every line of the file outside managed sections is in the output of
\* WriteConfig applied to Parse of the file, in the same relative order
C8_LocalTextSurvives ==
    (pc = "written" /\ arg.sourceName = "")
    => IsSubseq(OutsideSections(arg.file, FALSE), ret.out)

InWriteAtomic == pc \in {"mkdir", "create", "write", "sync", "close", "chmod", "rename", "cleanup"}

\* C10: during writeAtomic the target holds the complete previous content
\* or the complete new content; rename is reached only with the temp file
\* completely written, synced, closed and of mode 0600; after a failure the
\* temp file is gone and the target is as it was
C10_AtomicWrite ==
    /\ (InWriteAtomic \/ (pc = "done" /\ ~cfg.DryRun))
       => /\ target \in {run.before, WriteConfig(mergedHosts, TRUE)}
          /\ (target # run.before => (pc \in {"cleanup", "done"} /\ err = ""))
    /\ pc = "rename"
       => /\ temp.exists /\ temp.content = WriteConfig(mergedHosts, TRUE)
          /\ temp.synced /\ ~temp.open /\ temp.mode = "0600"
    /\ (pc = "done" /\ err # "") => (~temp.exists /\ target = run.before)

C10_Witness ==
    /\ pc = "done" /\ err = "failed to write config"
    /\ ~temp.exists /\ temp.content # <<>>
    /\ target = run.before /\ target # Absent
    /\ target # WriteConfig(mergedHosts, TRUE)

-----------------------------------------------------------------------------
(* Failures while loading *)

LoadErrors == {"failed to load hosts", "host validation failed"}

\* C11: when a source cannot be loaded or the loaded hosts do not validate,
\* sync ends with an error and nothing was written: no backup, no temp file,
\* the target as it was, nothing parsed or merged; and a run that got past
\* loading has loaded every source and holds a host list that validates.
C11_LoadFailureWritesNothing ==
    /\ (pc = "done" /\ err \in LoadErrors)
       => /\ target = run.before
          /\ temp = NoTemp
          /\ backupFile = run.backup0
          /\ allHosts = <<>> /\ existingHosts = <<>> /\ mergedHosts = <<>>
    /\ (pc # "load" /\ err \notin LoadErrors)
       => /\ \A i \in DOMAIN cfg.Hosts : ~cfg.Hosts[i].Broken
          /\ ValidateHosts(allHosts).kind = ""

\* a source fails to load while another one loaded, on a run that would
\* otherwise have backed up and rewritten an existing file
C11_Witness ==
    /\ pc = "done" /\ err = "failed to load hosts"
    /\ Len(cfg.Hosts) = 2 /\ ~cfg.Hosts[1].Broken
    /\ cfg.Backup /\ cfg.Command = "sync" /\ ~cfg.DryRun
    /\ target # Absent

-----------------------------------------------------------------------------
(* Two sync invocations on the same config path. No lock coordinates them
   (cmd_ssh.go has none); they share the target, the backup and the directory
   of temp files. In this specification cfg, pc, allHosts, existingHosts,
   mergedHosts, err and ret are functions of the invocation, temp is the
   directory of temp files by name, and ret[p].out is the name os.CreateTemp
   returned to p (tempFile.Name()). *)

Invocations == {1, 2}

\* names os.CreateTemp can draw for the pattern ".mmdot-ssh-config-*.tmp"
TempNames == {"t1", "t2"}

ConcConfigs ==
    [PreserveLocal : BOOLEAN, Backup : {TRUE}, DryRun : {FALSE}, Command : {"sync"},
     Hosts : { <<HostSource("A", 1, <<hx>>, FALSE)>>,
               <<HostSource("A", 1, <<hx2>>, FALSE), HostSource("B", 2, <<hy>>, FALSE)>> }]

\* the target at the start: absent, one local entry, or one managed section
ConcFiles ==
    { Absent,
      <<HostLine("a"), OptLine("Hostname", "a.local")>>,
      <<BeginMarker("A"), HostLine("x"), OptLine("Hostname", "x.test"), EndMarker("A"), BlankLine>> }

InitConc ==
    /\ cfg \in [Invocations -> ConcConfigs]
    /\ target \in ConcFiles
    /\ temp = [n \in TempNames |-> NoTemp]
    /\ backupFile = Absent
    /\ pc = [p \in Invocations |-> "load"]
    /\ allHosts = [p \in Invocations |-> <<>>]
    /\ existingHosts = [p \in Invocations |-> <<>>]
    /\ mergedHosts = [p \in Invocations |-> <<>>]
    /\ pending = {}
    /\ arg = NoCall
    /\ ret = [p \in Invocations |-> NoReturn]
    /\ report = NoReport
    /\ err = [p \in Invocations |-> ""]
    /\ run = [before |-> target, last |-> 0, created |-> [n \in TempNames |-> 0],
              foreign |-> FALSE]

CcFrame == UNCHANGED <<cfg, pending, arg, report>>

CcGoto(p, to) == pc' = [pc EXCEPT ![p] = to] /\ UNCHANGED err

CcFail(p, to, e) == pc' = [pc EXCEPT ![p] = to] /\ err' = [err EXCEPT ![p] = e]

\* loadHosts (lines 160-190) of invocation p
CcLoadHosts(p) ==
    /\ pc[p] = "load"
    /\ IF \E i \in DOMAIN cfg[p].Hosts : cfg[p].Hosts[i].Broken
       THEN CcFail(p, "done", "failed to load hosts") /\ UNCHANGED allHosts
       ELSE \E sorted \in SortHostsByPriority(Loaded(cfg[p].Hosts)) :
            \E deduplicated \in DeduplicateHosts(sorted) :
               IF ValidateHosts(deduplicated).kind # ""
               THEN CcFail(p, "done", "host validation failed") /\ UNCHANGED allHosts
               ELSE allHosts' = [allHosts EXCEPT ![p] = deduplicated] /\ CcGoto(p, "parse")
    /\ UNCHANGED <<target, temp, backupFile, existingHosts, mergedHosts, ret, run>>
    /\ CcFrame

RECURSIVE MergeAll(_, _, _, _)
\* mergeConfigs, lines 232-238: the fold of MergeHosts over the sources in the
\* order the range over the map visits them
MergeAll(merged, hosts, order, preserveLocal) ==
    IF order = <<>> THEN merged
    ELSE MergeAll(MergeHosts(merged, HostsOfSource(hosts, Head(order)), Head(order),
                             preserveLocal),
                  hosts, Tail(order), preserveLocal)

\* the orders a range over hostsBySource can take
MapOrders(hosts) ==
    LET keys == {hosts[i].Source : i \in DOMAIN hosts}
    IN  {o \in [1..Cardinality(keys) -> keys] : Range(o) = keys}

\* sync, lines 70-81: ParseFile reads the target as it is now, mergeConfigs
\* works on what was read
CcParseMerge(p) ==
    /\ pc[p] = "parse"
    /\ LET existing == ParseFile(target, cfg[p].PreserveLocal)
       IN  /\ existingHosts' = [existingHosts EXCEPT ![p] = existing]
           /\ \E order \in MapOrders(allHosts[p]) :
                 mergedHosts' = [mergedHosts EXCEPT
                                    ![p] = MergeAll(existing, allHosts[p], order,
                                                    cfg[p].PreserveLocal)]
    /\ CcGoto(p, "backup")
    /\ UNCHANGED <<target, temp, backupFile, allHosts, ret, run>>
    /\ CcFrame

\* writeConfig, lines 243-247, with createBackup
CcBackup(p) ==
    /\ pc[p] = "backup"
    /\ \/ /\ cfg[p].Backup /\ target # Absent
          /\ backupFile' = target
          /\ CcGoto(p, "mkdir")
       \/ /\ cfg[p].Backup /\ target # Absent
          /\ backupFile' \in {backupFile, <<>>}
          /\ CcFail(p, "done", "failed to create backup")
       \/ /\ ~cfg[p].Backup \/ target = Absent
          /\ CcGoto(p, "mkdir") /\ UNCHANGED backupFile
    /\ UNCHANGED <<target, temp, allHosts, existingHosts, mergedHosts, ret, run>>
    /\ CcFrame

CcLocal == UNCHANGED <<backupFile, allHosts, existingHosts, mergedHosts>> /\ CcFrame

\* writeAtomic, lines 279-282
CcMkdir(p) ==
    /\ pc[p] = "mkdir"
    /\ \/ CcGoto(p, "create")
       \/ CcFail(p, "done", "failed to create SSH config directory")
    /\ UNCHANGED <<target, temp, ret, run>>
    /\ CcLocal

\* CcCreateTemp with one fixed temp path that an existing file does not stop
CcCreateTempFixedName(p) ==
    /\ pc[p] = "create"
    /\ temp' = [temp EXCEPT !["t1"] = [exists |-> TRUE, content |-> <<>>, synced |-> FALSE,
                                       open |-> TRUE, mode |-> "0600"]]
    /\ ret' = [ret EXCEPT ![p] = [NoReturn EXCEPT !.fn = "CreateTemp", !.out = "t1"]]
    /\ run' = [run EXCEPT !.created["t1"] = p]
    /\ CcGoto(p, "write")
    /\ UNCHANGED target
    /\ CcLocal

\* lines 285-292: os.CreateTemp opens a new file with O_EXCL under a name with
\* a random suffix; the suffix is taken not to repeat a name drawn before
CcCreateTemp(p) ==
    /\ pc[p] = "create"
    /\ \/ \E n \in TempNames :
             /\ ~temp[n].exists /\ run.created[n] = 0
             /\ temp' = [temp EXCEPT ![n] = [exists |-> TRUE, content |-> <<>>,
                                             synced |-> FALSE, open |-> TRUE,
                                             mode |-> "0600"]]
             /\ ret' = [ret EXCEPT ![p] = [NoReturn EXCEPT !.fn = "CreateTemp", !.out = n]]
             /\ run' = [run EXCEPT !.created[n] = p]
             /\ CcGoto(p, "write")
       \/ /\ CcFail(p, "done", "failed to create temp file")
          /\ UNCHANGED <<temp, ret, run>>
    /\ UNCHANGED target
    /\ CcLocal

\* tempFile.Name() of invocation p
TempName(p) == ret[p].out

\* lines 295-297
CcWriteConfig(p) ==
    /\ pc[p] = "write"
    /\ LET out == WriteConfig(mergedHosts[p], TRUE)
       IN  \/ /\ temp' = [temp EXCEPT ![TempName(p)].content = out]
              /\ CcGoto(p, "sync")
           \/ \E k \in 0..(Len(out) - 1) :
                 /\ temp' = [temp EXCEPT ![TempName(p)].content = SubSeq(out, 1, k)]
                 /\ CcFail(p, "cleanup", "failed to write config")
    /\ UNCHANGED <<target, ret, run>>
    /\ CcLocal

\* lines 300-302
CcSync(p) ==
    /\ pc[p] = "sync"
    /\ \/ temp' = [temp EXCEPT ![TempName(p)].synced = TRUE] /\ CcGoto(p, "close")
       \/ CcFail(p, "cleanup", "failed to sync temp file") /\ UNCHANGED temp
    /\ UNCHANGED <<target, ret, run>>
    /\ CcLocal

\* lines 305-307
CcClose(p) ==
    /\ pc[p] = "close"
    /\ temp' = [temp EXCEPT ![TempName(p)].open = FALSE]
    /\ \/ CcGoto(p, "chmod")
       \/ CcFail(p, "cleanup", "failed to close temp file")
    /\ UNCHANGED <<target, ret, run>>
    /\ CcLocal

\* lines 310-312: os.Chmod by name fails when no file has the name
CcChmod(p) ==
    /\ pc[p] = "chmod"
    /\ \/ /\ temp[TempName(p)].exists
          /\ temp' = [temp EXCEPT ![TempName(p)].mode = "0600"]
          /\ CcGoto(p, "rename")
       \/ CcFail(p, "cleanup", "failed to set file permissions") /\ UNCHANGED temp
    /\ UNCHANGED <<target, ret, run>>
    /\ CcLocal

\* lines 315-317: os.Rename moves the file of that name over the target
CcRename(p) ==
    /\ pc[p] = "rename"
    /\ \/ /\ temp[TempName(p)].exists
          /\ target' = temp[TempName(p)].content
          /\ temp' = [temp EXCEPT ![TempName(p)] = NoTemp]
          /\ run' = [run EXCEPT !.last = p]
          /\ CcGoto(p, "cleanup")
       \/ /\ CcFail(p, "cleanup", "failed to rename temp file")
          /\ UNCHANGED <<target, temp, run>>
    /\ UNCHANGED ret
    /\ CcLocal

\* lines 289-292: the deferred os.Remove(tempFile.Name()) removes whatever
\* file has that name now
CcDeferred(p) ==
    /\ pc[p] = "cleanup"
    /\ temp' = [temp EXCEPT ![TempName(p)] = NoTemp]
    /\ run' = [run EXCEPT !.foreign = run.foreign \/ (/\ temp[TempName(p)].exists
                                                      /\ run.created[TempName(p)] # p)]
    /\ pc' = [pc EXCEPT ![p] = "done"]
    /\ UNCHANGED <<target, ret, err>>
    /\ CcLocal

NextConc ==
    \E p \in Invocations :
        \/ CcLoadHosts(p) \/ CcParseMerge(p) \/ CcBackup(p) \/ CcMkdir(p)
        \/ CcCreateTemp(p) \/ CcWriteConfig(p) \/ CcSync(p) \/ CcClose(p)
        \/ CcChmod(p) \/ CcRename(p) \/ CcDeferred(p)

SpecConc == InitConc /\ [][NextConc]_vars

-----------------------------------------------------------------------------
(* Dry run and the diff command *)

\* the invocation only shows what would change
ShowsOnly == cfg.DryRun \/ cfg.Command = "diff"

\* C13: sync --dry-run and diff create no backup and no temp file and leave
\* the target unchanged, and they end with the hosts loaded, the file parsed
\* and the sources merged as a real sync does it, the report being showDiff
\* of the parsed and the merged entries.
C13_DryRunWritesNothing ==
    ShowsOnly
    => /\ target = run.before
       /\ temp = NoTemp
       /\ backupFile = run.backup0
       /\ pc \in {"load", "parse", "merge", "done"}
       /\ (pc = "done" /\ err = "" /\ cfg.Hosts # <<>>)
          => /\ \E sorted \in SortHostsByPriority(Loaded(cfg.Hosts)) :
                   allHosts \in DeduplicateHosts(sorted)
             /\ existingHosts = ParseFile(target, cfg.PreserveLocal)
             /\ \E order \in MapOrders(allHosts) :
                   mergedHosts = MergeAll(existingHosts, allHosts, order, cfg.PreserveLocal)
             /\ report = showDiff(existingHosts, mergedHosts)

\* a dry run with backups enabled ends on an existing file it would change
C13_Witness ==
    /\ cfg.Command = "sync" /\ cfg.DryRun /\ cfg.Backup
    /\ pc = "done" /\ err = ""
    /\ target # Absent
    /\ report.added # {}
    /\ WriteConfig(mergedHosts, TRUE) # target

\* a report has been produced from existingHosts and mergedHosts
Reported == pc = "done" /\ err = "" /\ ShowsOnly /\ cfg.Hosts # <<>>

\* C14: the report classifies by name, the last entry of a name standing for
\* the name: added = only among the merged entries; modified = in both with
\* different lines; removed = only among the existing entries and tagged
\* managed; a name in both with equal lines, and a name only among the
\* existing entries whose entry is local, is in none of the three lists.
C14_DiffClassifies ==
    Reported
    => \A n \in NamesOf(existingHosts) \cup NamesOf(mergedHosts) :
          LET inE == \E i \in DOMAIN existingHosts : existingHosts[i].Name = n
              inM == \E i \in DOMAIN mergedHosts : mergedHosts[i].Name = n
          IN  /\ (n \in report.added) <=> (inM /\ ~inE)
              /\ (n \in report.modified)
                 <=> (inM /\ inE /\ LastOf(existingHosts, n).Lines # LastOf(mergedHosts, n).Lines)
              /\ (n \in report.removed)
                 <=> (inE /\ ~inM /\ LastOf(existingHosts, n).Source # LocalTag)
              /\ (inE /\ ~inM /\ LastOf(existingHosts, n).Source = LocalTag)
                 => n \notin report.added \cup report.modified \cup report.removed
              /\ (inE /\ inM /\ LastOf(existingHosts, n).Lines = LastOf(mergedHosts, n).Lines)
                 => n \notin report.added \cup report.modified \cup report.removed

\* one name is added, a managed one is removed, and a local entry that is not
\* among the merged entries is not reported
C14_Witness ==
    /\ Reported
    /\ report.added # {} /\ report.removed # {}
    /\ \E i \in DOMAIN existingHosts :
          /\ existingHosts[i].Source = LocalTag
          /\ existingHosts[i].Name \notin NamesOf(mergedHosts)
          /\ existingHosts[i].Name \notin report.removed

-----------------------------------------------------------------------------
(* What Parse returns *)

\* Parse has returned the entries of arg.file
Parsed == pc = "parsed" /\ ret.fn = "Parse"

\* the comments and lines of all entries, entry by entry
AllText(hosts) == Flatten([i \in DOMAIN hosts |-> hosts[i].Comments \o hosts[i].Lines])

Count(s, x) == Cardinality({i \in DOMAIN s : s[i] = x})

\* C15: with preserve-local enabled Parse returns only local entries, as many
\* as there are Host lines outside the managed sections, and every comment
\* and line of an entry is a line from outside the sections (no more often
\* than it occurs there, in file order); with either setting no marker line
\* is among the lines or comments of an entry.
C15_ManagedSectionsSkipped ==
    Parsed
    => LET outside == OutsideSections(arg.file, FALSE)
           text == AllText(ret.hosts)
       IN  /\ \A i \in DOMAIN text : text[i].kind \notin {"begin", "end"}
           /\ arg.preserveLocal
              => /\ \A i \in DOMAIN ret.hosts :
                       /\ ret.hosts[i].Source = LocalTag
                       /\ IsSubseq(ret.hosts[i].Comments, outside)
                       /\ IsSubseq(ret.hosts[i].Lines, outside)
                 /\ Len(ret.hosts) = Cardinality({i \in DOMAIN outside : outside[i].kind = "host"})
                 /\ \A i \in DOMAIN text : Count(text, text[i]) <= Count(outside, text[i])

\* a file with a local entry and a Host line inside a managed section, parsed
\* with preserve-local enabled
C15_Witness ==
    /\ Parsed /\ arg.preserveLocal
    /\ ret.hosts # <<>>
    /\ \E i, j \in DOMAIN arg.file :
          /\ i < j
          /\ arg.file[i].kind = "begin" /\ arg.file[j].kind = "host"
          /\ \A k \in (i + 1)..(j - 1) : arg.file[k].kind # "end"

RECURSIVE HostLineTags(_, _)
\* for every Host line of a file, in file order: the line and the tag of the
\* place it stands at, tag being managed:<name> from a BEGIN marker for <name>
\* up to the next END marker and local elsewhere
HostLineTags(lines, tag) ==
    IF lines = <<>> THEN <<>>
    ELSE IF Head(lines).kind = "begin"
    THEN HostLineTags(Tail(lines), ManagedTag(Head(lines).a))
    ELSE IF Head(lines).kind = "end"
    THEN HostLineTags(Tail(lines), LocalTag)
    ELSE (IF Head(lines).kind = "host" THEN <<[line |-> Head(lines), tag |-> tag]>> ELSE <<>>)
         \o HostLineTags(Tail(lines), tag)

\* C16: with preserve-local disabled Parse returns one entry per Host line, in
\* file order, each named by and starting with its Host line and tagged
\* managed:<name> exactly when that line stands between the BEGIN marker for
\* <name> and the next END marker, local otherwise.
C16_OneEntryPerHostLine ==
    (Parsed /\ ~arg.preserveLocal)
    => LET expected == HostLineTags(arg.file, LocalTag)
       IN  /\ Len(ret.hosts) = Len(expected)
           /\ \A i \in DOMAIN ret.hosts :
                 /\ ret.hosts[i].Name = expected[i].line.a
                 /\ ret.hosts[i].Lines[1] = expected[i].line
                 /\ ret.hosts[i].Source = expected[i].tag

\* a file with a Host line before a section and a Host line inside it
C16_Witness ==
    /\ Parsed /\ ~arg.preserveLocal
    /\ Len(ret.hosts) = 2
    /\ ret.hosts[1].Source = LocalTag
    /\ ret.hosts[2].Source = ManagedTag("B")

-----------------------------------------------------------------------------
(* ValidateHosts and DeduplicateHosts on their own (parser.go:301-342): they
   are also called on the hosts of one hosts file as it was read, so the
   lists hold hosts that do not pass Host.Validate as well *)

\* a host of a list: stamped with source and priority
ListHost(n, hn, port, src, prio) ==
    [Host(n, hn) EXCEPT !.Port = port, !.Source = src, !.Priority = prio]

ListHosts ==
    {ListHost(n, "h.test", 0, src, prio) : n \in {"a", "b"}, src \in SourceNames, prio \in {1, 2}}
    \cup {ListHost("a", "", 0, "A", 1), ListHost("b", "h.test", MaxPort + 1, "B", 2)}

InitHostList ==
    /\ Idle
    /\ pc = "call"
    /\ \E hosts \in SeqsUpTo(ListHosts, MaxList) :
          arg = [NoCall EXCEPT !.fn = "hosts", !.managed = hosts]
    /\ ret = NoReturn

CallValidateHosts ==
    /\ pc = "call" /\ arg.fn = "hosts"
    /\ arg' = [arg EXCEPT !.fn = "ValidateHosts"]
    /\ ret' = [NoReturn EXCEPT !.fn = "ValidateHosts", !.out = ValidateHosts(arg.managed)]
    /\ pc' = "returned"
    /\ IdleFrame

CallDeduplicateHosts ==
    /\ pc = "call" /\ arg.fn = "hosts"
    /\ arg' = [arg EXCEPT !.fn = "DeduplicateHosts"]
    /\ \E result \in DeduplicateHosts(arg.managed) :
          ret' = [NoReturn EXCEPT !.fn = "DeduplicateHosts", !.hosts = result]
    /\ pc' = "returned"
    /\ IdleFrame

\* a list as loadHosts stamps it (cmd_ssh.go:170-173): the hosts of one
\* source all carry the priority of that source
StampedBySource(hosts) ==
    \A i, j \in DOMAIN hosts :
        hosts[i].Source = hosts[j].Source => hosts[i].Priority = hosts[j].Priority

\* the tail of loadHosts with ValidateHosts applied to the sorted list
CallLoadHostsNoDedup ==
    /\ pc = "call" /\ arg.fn = "hosts" /\ StampedBySource(arg.managed)
    /\ arg' = [arg EXCEPT !.fn = "loadHosts"]
    /\ \E sorted \in SortHostsByPriority(arg.managed) :
          ret' = [NoReturn EXCEPT !.fn = "loadHosts", !.hosts = sorted,
                                  !.out = ValidateHosts(sorted)]
    /\ pc' = "returned"
    /\ IdleFrame

\* the tail of loadHosts (cmd_ssh.go:178-189) on the stamped list arg.managed:
\* sort, deduplicate, validate
CallLoadHosts ==
    /\ pc = "call" /\ arg.fn = "hosts" /\ StampedBySource(arg.managed)
    /\ arg' = [arg EXCEPT !.fn = "loadHosts"]
    /\ \E sorted \in SortHostsByPriority(arg.managed) :
       \E deduplicated \in DeduplicateHosts(sorted) :
          ret' = [NoReturn EXCEPT !.fn = "loadHosts", !.hosts = deduplicated,
                                  !.out = ValidateHosts(deduplicated)]
    /\ pc' = "returned"
    /\ IdleFrame

NextHostList == CallValidateHosts \/ CallDeduplicateHosts \/ CallLoadHosts

SpecHostList == InitHostList /\ [][NextHostList]_vars

\* ValidateHosts has returned ret.out for the list arg.managed
Validated == pc = "returned" /\ ret.fn = "ValidateHosts"

\* some name occurs twice in the list
HasRepeat(hosts) == \E i, j \in DOMAIN hosts : i < j /\ hosts[i].Name = hosts[j].Name

\* host i of the list repeats the name of an earlier host
Repeats(hosts, i) == \E j \in 1..(i - 1) : hosts[j].Name = hosts[i].Name

\* C17 as stated: ValidateHosts succeeds on every list of pairwise distinct
\* names, and on a list with a repeated name it fails at the first host that
\* repeats a name, with an error naming that name and both sources.
C17_DistinctNamesValidate ==
    Validated
    => LET hosts == arg.managed
       IN  /\ ~HasRepeat(hosts) => ret.out.kind = ""
           /\ HasRepeat(hosts)
              => LET i == CHOOSE k \in DOMAIN hosts :
                              Repeats(hosts, k) /\ \A m \in 1..(k - 1) : ~Repeats(hosts, m)
                     j == CHOOSE k \in 1..(i - 1) : hosts[k].Name = hosts[i].Name
                 IN  /\ ret.out.kind = "duplicate host name"
                     /\ ret.out.name = hosts[i].Name
                     /\ ret.out.first = hosts[j].Source
                     /\ ret.out.second = hosts[i].Source

\* host i of the list fails Host.Validate or repeats an earlier name
Rejected(hosts, i) == HostValidate(hosts[i]) # "" \/ Repeats(hosts, i)

\* C17, amended: ValidateHosts succeeds exactly on the lists whose hosts all
\* pass Host.Validate and whose names are pairwise distinct; otherwise it
\* fails at the first host in scan order that fails Host.Validate, with that
\* host's error, or repeats an earlier name, with an error naming the name
\* and the sources of the two hosts.
C17_ValidHostsValidate ==
    Validated
    => LET hosts == arg.managed
       IN  IF \A i \in DOMAIN hosts : ~Rejected(hosts, i)
           THEN ret.out.kind = ""
           ELSE LET i == CHOOSE k \in DOMAIN hosts :
                             Rejected(hosts, k) /\ \A m \in 1..(k - 1) : ~Rejected(hosts, m)
                IN  IF HostValidate(hosts[i]) # ""
                    THEN ret.out.kind = HostValidate(hosts[i]) /\ ret.out.name = hosts[i].Name
                    ELSE LET j == CHOOSE k \in 1..(i - 1) : hosts[k].Name = hosts[i].Name
                         IN  /\ ret.out.kind = "duplicate host name"
                             /\ ret.out.name = hosts[i].Name
                             /\ ret.out.first = hosts[j].Source
                             /\ ret.out.second = hosts[i].Source

\* three valid hosts, the third repeating the name of the first from another
\* source
C17_Witness ==
    /\ Validated
    /\ Len(arg.managed) = 3
    /\ \A i \in DOMAIN arg.managed : HostValidate(arg.managed[i]) = ""
    /\ arg.managed[1].Name = arg.managed[3].Name
    /\ arg.managed[1].Name # arg.managed[2].Name
    /\ ret.out.kind = "duplicate host name"
    /\ ret.out.first = "A" /\ ret.out.second = "B"

-----------------------------------------------------------------------------
(* Host.Validate and Host.String on their own (config.go:62-129) *)

\* ports on both sides of the two limits of Validate
Ports == {-1, 0, 22, MaxPort, MaxPort + 1}

\* forwards as their colon-separated parts: "8080:localhost:80" and "9090"
ForwardLists == { <<>>, <<<<"8080", "localhost", "80">>, <<"9090">>>> }

CustomLists ==
    { <<>>, <<OptLine("ServerAliveInterval", "60")>>,
      <<OptLine("Compression", "yes"), OptLine("ServerAliveInterval", "60")>> }

HostValues ==
    [Name : {"", "a", "*.test"}, Hostname : {"", "h.test"}, User : {"", "u"}, Port : Ports,
     IdentityFile : {"", "id_a"}, ProxyJump : {"", "jump"},
     ForwardAgent : {"nil", "yes", "no"}, ForwardX11 : {"nil", "yes", "no"},
     LocalForward : ForwardLists, RemoteForward : ForwardLists, Custom : CustomLists,
     Source : {""}, Priority : {0}]

InitHost ==
    /\ Idle
    /\ pc = "call"
    /\ \E h \in HostValues : arg = [NoCall EXCEPT !.fn = "host", !.managed = <<h>>]
    /\ ret = NoReturn

CallValidate ==
    /\ pc = "call" /\ arg.fn = "host"
    /\ arg' = [arg EXCEPT !.fn = "Validate"]
    /\ ret' = [NoReturn EXCEPT !.fn = "Validate", !.out = HostValidate(arg.managed[1])]
    /\ pc' = "returned"
    /\ IdleFrame

CallString ==
    /\ pc = "call" /\ arg.fn = "host"
    /\ arg' = [arg EXCEPT !.fn = "String"]
    /\ ret' = [NoReturn EXCEPT !.fn = "String", !.out = HostString(arg.managed[1])]
    /\ pc' = "returned"
    /\ IdleFrame

NextHost == CallValidate \/ CallString

SpecHost == InitHost /\ [][NextHost]_vars

\* C18: Host.Validate fails exactly when the name is empty, or the hostname
\* is empty, or the port is outside 0..65535, and reports the first of these
\* in that order; so port 0 and a wildcard name are valid.
C18_ValidateChecks ==
    (pc = "returned" /\ ret.fn = "Validate")
    => LET h == arg.managed[1]
           badName == h.Name = ""
           badHostname == h.Hostname = ""
           badPort == h.Port < 0 \/ h.Port > 65535
       IN  /\ (ret.out # "") <=> (badName \/ badHostname \/ badPort)
           /\ badName => ret.out = "host name cannot be empty"
           /\ (~badName /\ badHostname) => ret.out = "hostname cannot be empty"
           /\ (~badName /\ ~badHostname /\ badPort) => ret.out = "invalid port"

\* a host with a wildcard name and port 0 has been validated
C18_Witness ==
    /\ pc = "returned" /\ ret.fn = "Validate"
    /\ arg.managed[1].Name = "*.test" /\ arg.managed[1].Hostname # ""
    /\ arg.managed[1].Port = 0
    /\ ret.out = ""

\* DeduplicateHosts has returned ret.hosts for the list arg.managed
Deduplicated == pc = "returned" /\ ret.fn = "DeduplicateHosts"

\* C19: DeduplicateHosts returns one host for every name of the input and no
\* other; the host returned for a name is one of the input hosts of that
\* name, of the highest priority among them, so a host whose name occurs
\* once is returned as it is.
C19_OnePerNameHighestPriority ==
    Deduplicated
    => LET hosts == arg.managed
           result == ret.hosts
       IN  /\ NamesOf(result) = NamesOf(hosts)
           /\ \A i, j \in DOMAIN result : i # j => result[i].Name # result[j].Name
           /\ \A i \in DOMAIN result :
                 /\ result[i] \in Range(hosts)
                 /\ \A k \in DOMAIN hosts :
                       hosts[k].Name = result[i].Name
                       => hosts[k].Priority <= result[i].Priority
           /\ \A k \in DOMAIN hosts :
                 (\A m \in DOMAIN hosts : hosts[m].Name = hosts[k].Name => m = k)
                 => hosts[k] \in Range(result)

\* a name given twice, the lower priority first, and another name given once
C19_Witness ==
    /\ Deduplicated
    /\ Len(arg.managed) = 3 /\ Len(ret.hosts) = 2
    /\ arg.managed[1].Name = arg.managed[2].Name
    /\ arg.managed[1].Priority < arg.managed[2].Priority
    /\ arg.managed[2] \in Range(ret.hosts)
    /\ arg.managed[3] \in Range(ret.hosts)

\* Host.String has returned ret.out, the lines of the string, for arg.managed[1]
Stringed == pc = "returned" /\ ret.fn = "String"

\* the place of a line in the fixed order of Host.String; lines of Custom last
FieldRank(line) ==
    CASE line.kind = "host" -> 0
      [] line.a = "Hostname" -> 1
      [] line.a = "User" -> 2
      [] line.a = "Port" -> 3
      [] line.a = "IdentityFile" -> 4
      [] line.a = "ProxyJump" -> 5
      [] line.a = "ForwardAgent" -> 6
      [] line.a = "ForwardX11" -> 7
      [] line.a = "LocalForward" -> 8
      [] line.a = "RemoteForward" -> 9
      [] OTHER -> 10

\* the lines of s with the given place in the order
LinesOfRank(s, r) == SelectSeq(s, LAMBDA line : FieldRank(line) = r)

\* what a set scalar field contributes, and an unset one
FieldLine(isSet, key, val) == IF isSet THEN <<OptLine(key, val)>> ELSE <<>>

\* one line per forward that has a colon: the text before the first colon, a
\* space, and the text after it
ForwardText(key, forwards) ==
    LET withColon == SelectSeq(forwards, LAMBDA f : Len(f) >= 2)
    IN  [i \in DOMAIN withColon |->
            OptLine(key, withColon[i][1] \o " " \o JoinColon(Tail(withColon[i])))]

\* C20: the first line of Host.String is "Host <name>"; the lines after it
\* come in the order Hostname, User, Port, IdentityFile, ProxyJump,
\* ForwardAgent, ForwardX11, LocalForward, RemoteForward, Custom; a scalar
\* field gives one line when it is set (a string that is not empty, a port
\* above 0, a tri-state that is not nil) and none otherwise; every forward
\* with a colon gives one line split at its first colon and a forward
\* without colon gives none; every Custom line is there; and the string does
\* not end with a newline (its last line is not empty).
C20_StringLayout ==
    Stringed
    => LET h == arg.managed[1]
           out == ret.out
       IN  /\ out[1] = HostLine(h.Name)
           /\ LinesOfRank(out, 0) = <<HostLine(h.Name)>>
           /\ \A i, j \in DOMAIN out : i < j => FieldRank(out[i]) <= FieldRank(out[j])
           /\ LinesOfRank(out, 1) = FieldLine(h.Hostname # "", "Hostname", h.Hostname)
           /\ LinesOfRank(out, 2) = FieldLine(h.User # "", "User", h.User)
           /\ LinesOfRank(out, 3) = FieldLine(h.Port > 0, "Port", ToString(h.Port))
           /\ LinesOfRank(out, 4) = FieldLine(h.IdentityFile # "", "IdentityFile", h.IdentityFile)
           /\ LinesOfRank(out, 5) = FieldLine(h.ProxyJump # "", "ProxyJump", h.ProxyJump)
           /\ LinesOfRank(out, 6) = FieldLine(h.ForwardAgent # "nil", "ForwardAgent", h.ForwardAgent)
           /\ LinesOfRank(out, 7) = FieldLine(h.ForwardX11 # "nil", "ForwardX11", h.ForwardX11)
           /\ LinesOfRank(out, 8) = ForwardText("LocalForward", h.LocalForward)
           /\ LinesOfRank(out, 9) = ForwardText("RemoteForward", h.RemoteForward)
           /\ LinesOfRank(out, 10) = h.Custom
           /\ out[Len(out)] # BlankLine

\* a host with every field set, a forward with two colons and one without
C20_Witness ==
    /\ Stringed
    /\ LET h == arg.managed[1]
       IN  /\ h.Name = "a" /\ h.Hostname # "" /\ h.User # "" /\ h.Port = 22
           /\ h.IdentityFile # "" /\ h.ProxyJump # ""
           /\ h.ForwardAgent = "yes" /\ h.ForwardX11 = "no"
           /\ Len(h.LocalForward) = 2 /\ Len(h.RemoteForward) = 2 /\ Len(h.Custom) = 2
    /\ Len(ret.out) = 12
    /\ OptLine("LocalForward", "8080 localhost:80") \in Range(ret.out)

-----------------------------------------------------------------------------
(* WriteConfig on the entries mergeConfigs hands to it, and Parse on what it
   wrote (parser.go:175-298, 47-131) *)

\* entries as mergeConfigs returns them: local entries as Parse read them,
\* managed entries as MergeHosts built them from a host, and a managed entry
\* as Parse read it (no source has a host, the file is written back)
WrittenEntries ==
    { ParsedHost("a", <<HostLine("a"), OptLine("Hostname", "a.local")>>, <<>>, LocalTag),
      ParsedHost("b", <<HostLine("b"), OptLine("Hostname", "b.local"), BlankLine>>,
                 <<CommentLine("note")>>, LocalTag),
      ParsedHost("x", HostString(hx), <<>>, ManagedTag("A")),
      ParsedHost("y", HostString(hy), <<>>, ManagedTag("A")),
      ParsedHost("x", HostString(hx2), <<>>, ManagedTag("B")),
      ParsedHost("a", HostString(ha), <<>>, ManagedTag("B")),
      ParsedHost("y", <<HostLine("y"), OptLine("Hostname", "y.old")>>,
                 <<CommentLine("note")>>, ManagedTag("B")) }

InitWrite ==
    /\ Idle
    /\ pc = "merged"
    /\ \E entries \in SeqsUpTo(WrittenEntries, MaxWritten), preserveLocal \in BOOLEAN :
          /\ arg = [NoCall EXCEPT !.fn = "MergeHosts", !.preserveLocal = preserveLocal]
          /\ ret = [NoReturn EXCEPT !.fn = "MergeHosts", !.hosts = entries]

NextWrite == RtWrite \/ RtReparse

SpecWrite == InitWrite /\ [][NextWrite]_vars

\* WriteConfig has written ret.out for the entries ret.hosts, grouped by source
WrittenGrouped == pc = "written" /\ ret.fn = "WriteConfig" /\ arg.grouped

\* the entries of a sequence that carry the tag, in their order
OfTag(entries, tag) == SelectSeq(entries, LAMBDA e : e.Source = tag)

\* the tags other than local, ordered by the place of their first entry
ManagedTagsByFirst(entries) ==
    LET tags == {entries[i].Source : i \in DOMAIN entries} \ {LocalTag}
        first(t) == CHOOSE i \in DOMAIN entries :
                        entries[i].Source = t /\ \A j \in 1..(i - 1) : entries[j].Source # t
    IN  CHOOSE ts \in [1..Cardinality(tags) -> tags] :
            \A i, j \in DOMAIN ts : i < j => first(ts[i]) < first(ts[j])

\* texts one after the other with one blank line between two of them
BlankSeparated(texts) ==
    Flatten([i \in DOMAIN texts |->
                texts[i] \o (IF i < Len(texts) THEN <<BlankLine>> ELSE <<>>)])

\* C21: the grouped output is: the local entries in their order (comments,
\* then lines), one blank line between two of them and one after the last;
\* then for every other tag, in order of first appearance, the BEGIN marker
\* of its source, the lines of its entries in their order with one blank
\* line between two of them, the END marker of its source and a blank line.
\* So every entry is written once, a managed one inside its own section.
C21_GroupedLayout ==
    WrittenGrouped
    => LET entries == ret.hosts
           locals == OfTag(entries, LocalTag)
           tags == ManagedTagsByFirst(entries)
           section(t) ==
               <<BeginMarker(TagName(t))>>
               \o BlankSeparated([i \in DOMAIN OfTag(entries, t) |-> OfTag(entries, t)[i].Lines])
               \o <<EndMarker(TagName(t)), BlankLine>>
       IN  ret.out =
              (IF locals = <<>> THEN <<>>
               ELSE BlankSeparated([i \in DOMAIN locals |->
                                       locals[i].Comments \o locals[i].Lines])
                    \o <<BlankLine>>)
              \o Flatten([k \in DOMAIN tags |-> section(tags[k])])

\* a managed entry, a local entry and a second entry of the same source, in
\* this order, have been written grouped
C21_Witness ==
    /\ WrittenGrouped
    /\ Len(ret.hosts) = 3
    /\ ret.hosts[1].Source = ManagedTag("A")
    /\ ret.hosts[2].Source = LocalTag
    /\ ret.hosts[3].Source = ManagedTag("A")
    /\ ret.hosts[1] # ret.hosts[3]

-----------------------------------------------------------------------------
(* The existing file cannot be read, or is not there *)

ParseFailed == err = "failed to parse existing SSH config"

\* C22: when the target does not exist ParseFile gives no entries and no
\* error, and a sync that ends without error has then written a new file
\* holding the merge of the desired hosts into nothing; when the file cannot
\* be opened sync ends with an error before any MergeHosts call, backup or
\* write.
C22_MissingFileIsFirstRun ==
    /\ (run.before = Absent /\ pc \notin {"load", "parse"})
       => /\ ~ParseFailed
          /\ existingHosts = <<>>
    /\ (run.before = Absent /\ pc = "done" /\ err = "" /\ ~ShowsOnly /\ cfg.Hosts # <<>>)
       => /\ target # Absent
          /\ \E order \in MapOrders(allHosts) :
                target = WriteConfig(MergeAll(<<>>, allHosts, order, cfg.PreserveLocal), TRUE)
    /\ ParseFailed
       => /\ pc = "done" /\ run.before # Absent
          /\ target = run.before /\ temp = NoTemp /\ backupFile = run.backup0
          /\ existingHosts = <<>> /\ mergedHosts = <<>> /\ arg = NoCall

\* a first run: the target did not exist and now holds the desired hosts
C22_Witness ==
    /\ run.mode = "first" /\ run.before = Absent
    /\ pc = "done" /\ err = ""
    /\ cfg.Command = "sync" /\ ~cfg.DryRun /\ cfg.Backup
    /\ target # Absent /\ target # <<>>
    /\ backupFile = Absent

\* ---------------------------------------------------------------------
\* C23: in the result of MergeHosts, no entry taken from existing has both
\* a tag other than local and the name of a desired host
C23_NoReplacedEntryKept ==
    MergeReturned =>
        \A i \in DOMAIN Retained :
            ~(Retained[i].Source # LocalTag /\ Retained[i].Name \in ManagedNames)

\* an entry of another source with a desired host's name went in, a local
\* entry of the same name came out
C23_Witness ==
    /\ MergeReturned /\ arg.preserveLocal
    /\ Len(arg.existing) = 2
    /\ arg.existing[1].Source = LocalTag
    /\ IsManagedTag(arg.existing[2].Source)
    /\ arg.existing[2].Source # ManagedTag(arg.sourceName)
    /\ arg.existing[1].Name = arg.existing[2].Name
    /\ arg.existing[2].Name \in ManagedNames
    /\ Retained = <<arg.existing[1]>>

\* ---------------------------------------------------------------------
\* the section state Parse is in when it reads line i: inside a managed
\* section when the last marker above line i is a BEGIN marker
InSectionAt(lines, i) ==
    LET markers == {j \in 1..(i - 1) : lines[j].kind \in {"begin", "end"}}
    IN  /\ markers # {}
        /\ lines[CHOOSE j \in markers : \A k \in markers : k <= j].kind = "begin"

\* the positions of the Host lines Parse makes an entry for, in file order
EntryLines(lines, preserveLocal) ==
    LET at == {i \in DOMAIN lines :
                  /\ lines[i].kind = "host"
                  /\ ~(preserveLocal /\ InSectionAt(lines, i))}
    IN  CHOOSE idx \in [1..Cardinality(at) -> at] :
            \A k \in DOMAIN idx : \A m \in DOMAIN idx : k < m => idx[k] < idx[m]

RECURSIVE CommentsAbove(_, _)
\* the comment lines directly above line i, nothing else in between
CommentsAbove(lines, i) ==
    IF i = 1 \/ lines[i - 1].kind # "comment" THEN <<>>
    ELSE Append(CommentsAbove(lines, i - 1), lines[i - 1])

\* C24: the comments of every entry Parse returns are exactly the comment
\* lines directly above its Host line; a comment separated from the Host line
\* by a blank line, an option line or a section marker is not attached
C24_CommentsAdjacent ==
    Parsed =>
        LET at == EntryLines(arg.file, arg.preserveLocal)
        IN  /\ Len(ret.hosts) = Len(at)
            /\ \A k \in DOMAIN ret.hosts :
                  ret.hosts[k].Comments = CommentsAbove(arg.file, at[k])

\* ---------------------------------------------------------------------
\* the first position after line i that holds a Host line or a section
\* marker; one past the last line when there is none
BodyEnd(lines, i) ==
    LET stops == {j \in (i + 1)..Len(lines) : lines[j].kind \in {"host", "begin", "end"}}
    IN  IF stops = {} THEN Len(lines) + 1
        ELSE CHOOSE j \in stops : \A k \in stops : j <= k

\* C25: every entry Parse returns has a non-empty name, starts with its
\* Host line, and holds only lines of the file that stand before the next
\* Host line and before the next BEGIN or END marker
C25_BodyEndsAtMarker ==
    Parsed =>
        LET at == EntryLines(arg.file, arg.preserveLocal)
        IN  /\ Len(ret.hosts) = Len(at)
            /\ \A k \in DOMAIN ret.hosts :
                  /\ ret.hosts[k].Name # ""
                  /\ ret.hosts[k].Lines[1] = arg.file[at[k]]
                  /\ IsSubseq(ret.hosts[k].Lines,
                              SubSeq(arg.file, at[k], BodyEnd(arg.file, at[k]) - 1))

\* ---------------------------------------------------------------------
BackupFailed == err = "failed to create backup"

\* C26: with backup enabled and an existing target, the backup holds the
\* whole content the target had before the sync whenever the temporary file
\* exists or the target has changed; a sync that ends with the backup error
\* has created no temporary file and left the target as it was
C26_BackupBeforeWrite ==
    /\ (/\ cfg.Backup /\ run.before # Absent
        /\ (temp.exists \/ target # run.before \/ InWriteAtomic))
       => backupFile = run.before
    /\ BackupFailed => /\ pc = "done" /\ cfg.Backup /\ run.before # Absent
                       /\ temp = NoTemp /\ target = run.before

\* the temporary file is there, the target is still the old one, and the
\* backup was written by this sync
C26_Witness ==
    /\ cfg.Backup /\ run.before # Absent /\ run.before # <<>>
    /\ temp.exists /\ temp.content # <<>> /\ target = run.before
    /\ run.backup0 # run.before /\ backupFile = run.before

\* ---------------------------------------------------------------------
\* loadHosts has sorted, deduplicated and validated the list arg.managed
HostsLoaded == pc = "returned" /\ ret.fn = "loadHosts"

ValidateErrors == {"host name cannot be empty", "hostname cannot be empty", "invalid port"}

\* C27: in loadHosts validation never fails with the duplicate-name error;
\* it fails only with an error of Host.Validate (empty name, empty hostname,
\* port out of range), and a list of valid hosts that holds a name twice
\* loads without error, with one host of that name
C27_NoDuplicateError ==
    HostsLoaded =>
        /\ ret.out.kind # "duplicate host name"
        /\ ret.out.kind \in ValidateErrors \cup {""}
        /\ (\A i \in DOMAIN arg.managed : HostValidate(arg.managed[i]) = "")
           => /\ ret.out.kind = ""
              /\ \A i \in DOMAIN arg.managed :
                    Cardinality({j \in DOMAIN ret.hosts :
                                    ret.hosts[j].Name = arg.managed[i].Name}) = 1

\* the same name from two sources and once more from the first of them
C27_Witness ==
    /\ HostsLoaded /\ ret.out.kind = ""
    /\ Len(arg.managed) = 3 /\ Len(ret.hosts) = 1
    /\ arg.managed[1].Source = arg.managed[3].Source
    /\ arg.managed[1].Source # arg.managed[2].Source

\* C28: of the hosts two different sources of equal priority define under
\* one name, loadHosts keeps the one of the source whose name sorts first,
\* wherever the sources stand in the list
C28_TieKeepsFirstSourceName ==
    HostsLoaded =>
        \A i, j \in DOMAIN arg.managed :
            LET x == arg.managed[i]
                y == arg.managed[j]
            IN  (/\ x.Name = y.Name /\ x.Priority = y.Priority
                 /\ SourceRank(x.Source) < SourceRank(y.Source))
                => y \notin Range(ret.hosts)

\* source B is listed before source A, both of priority 1 and both with a
\* host a; the host of A is kept
C28_Witness ==
    /\ HostsLoaded
    /\ Len(arg.managed) = 2
    /\ arg.managed[1].Name = arg.managed[2].Name
    /\ arg.managed[1].Priority = arg.managed[2].Priority
    /\ arg.managed[1].Source = "B" /\ arg.managed[2].Source = "A"
    /\ ret.hosts = <<arg.managed[2]>>

\* ---------------------------------------------------------------------
\* C29: with preserve-local enabled the existing entries showDiff is given
\* are all local, so the report names no host as removed, and every managed
\* entry among the merged ones whose name no existing (local) entry has is
\* reported as added, whatever managed sections the file holds
C29_ManagedAlwaysAdded ==
    (Reported /\ cfg.PreserveLocal)
    => /\ \A i \in DOMAIN existingHosts : existingHosts[i].Source = LocalTag
       /\ report.removed = {}
       /\ \A i \in DOMAIN mergedHosts :
             (/\ IsManagedTag(mergedHosts[i].Source)
              /\ mergedHosts[i].Name \notin NamesOf(existingHosts))
             => mergedHosts[i].Name \in report.added

\* the file holds the section of source A with host x exactly as the
\* merged entries have it, and x is reported as added all the same
C29_Witness ==
    /\ Reported /\ cfg.PreserveLocal
    /\ LET onDisk == Parse(run.before, FALSE)
       IN  /\ Len(onDisk) = 2
           /\ onDisk[1].Source = LocalTag
           /\ onDisk[2].Source = ManagedTag("A")
           /\ Len(mergedHosts) = 2
           /\ mergedHosts[2].Name = onDisk[2].Name
           /\ mergedHosts[2].Source = onDisk[2].Source
           /\ mergedHosts[2].Lines = SubSeq(onDisk[2].Lines, 1, Len(mergedHosts[2].Lines))
    /\ report.added = {mergedHosts[2].Name}
    /\ report.modified = {} /\ report.removed = {}

\* ---------------------------------------------------------------------
\* the grouped output of the entries ret.hosts has been parsed again with
\* preserve-local disabled
GroupedReparsed == pc = "reparsed" /\ ret.fn = "Reparse" /\ arg.grouped /\ ~arg.again

\* the (name, tag) pairs of a sequence of entries
NameTags(entries) == [i \in DOMAIN entries |-> <<entries[i].Name, entries[i].Source>>]

\* C30: parsing the grouped output of WriteConfig with preserve-local
\* disabled gives the (name, tag) pairs of the entries written: those of the
\* local entries in their order, then those of every managed tag, the tags
\* in order of first appearance
C30_GroupedRoundTrip ==
    GroupedReparsed
    => LET entries == ret.hosts
           tags == ManagedTagsByFirst(entries)
       IN  NameTags(ret.back) =
              NameTags(OfTag(entries, LocalTag))
              \o Flatten([k \in DOMAIN tags |-> NameTags(OfTag(entries, tags[k]))])

\* an entry of source B, a local entry and an entry of source A were
\* written in this order and come back local first, then B, then A
C30_Witness ==
    /\ GroupedReparsed
    /\ Len(ret.hosts) = 3 /\ Len(ret.back) = 3
    /\ ret.hosts[1].Source = ManagedTag("B")
    /\ ret.hosts[2].Source = LocalTag
    /\ ret.hosts[3].Source = ManagedTag("A")
    /\ ret.back[1].Source = LocalTag
    /\ ret.back[2].Source = ManagedTag("B")
    /\ ret.back[3].Source = ManagedTag("A")

====
